---- MODULE Spec2Model ----
(***************************************************************************)
(* Verification model of the a3s-search meta search library:               *)
(*   - Aggregator (src/src/aggregator.rs) and the result types             *)
(*     (src/src/result.rs): deduplication, merging, scoring, sorting;      *)
(*   - Search orchestrator (src/src/search.rs): fan-out with per-engine    *)
(*     deadlines and join_all;                                             *)
(*   - BrowserPool / BrowserFetcher (src/src/browser.rs): lazy browser     *)
(*     launch under a mutex and the tab semaphore.                         *)
(*                                                                         *)
(* f64 values are modelled as exact fixed-point numbers: the integer n     *)
(* stands for the real n / Unit.  Every product and quotient that the      *)
(* bounded inputs can produce is exact in this representation.             *)
(***************************************************************************)
EXTENDS Integers, Sequences, FiniteSets, TLC

VARIABLES
    engine_weights,   \* Aggregator.engine_weights : name -> weight
    agg_input,        \* argument of a direct Aggregator::aggregate call
    agg_output        \* its return values: <<>> before the first call, one
                      \* SearchResults per call made on agg_input after

aggVars == <<engine_weights, agg_input, agg_output>>

VARIABLES
    engines,          \* Search.engines : registered engine configs, in order
    spc,              \* position of the search() call: idle, joining, returned
    query,            \* the SearchQuery passed to search()
    engines_to_use,   \* result of select_engines
    tasks,            \* per selected engine: the value its future yields
    now,              \* clock, in seconds
    start,            \* clock value when the futures were created
    ret,              \* value returned by search()
    outcome,          \* history: how, with what and when each task settled
    default_timeout,  \* Search.default_timeout, in seconds
    settle_order,     \* history: task indices in the order the tasks settled
    handed,           \* history: the tuples search() passed to aggregate
    invoked           \* history: names of the engines whose search() was called

searchVars == <<engines, spc, query, engines_to_use, tasks, now, start, ret,
                outcome, default_timeout, settle_order, handed, invoked>>

VARIABLES
    browser,          \* BrowserPool.browser : 0 for None, else the browser id
    init_lock,        \* holder of the mutex around BrowserPool.browser
    permits,          \* available permits of tab_semaphore
    has_chrome_path,  \* config.chrome_path.is_some()
    call,             \* per caller: none, fetch or acquire (acquire_browser)
    fpc,              \* per caller: the await point its call is suspended at
    handle,           \* per caller: the Arc<Browser> it holds (0 for none)
    open_tabs,        \* per browser id: tabs open in that browser process
    launched,         \* number of browser processes launched so far
    shutdowns,        \* number of shutdown() calls so far
    calls,            \* number of fetch / acquire_browser calls so far
    got,              \* history: <<shutdowns so far, browser id, how>> per
                      \* handle acquire_browser returned
    exits             \* history: how fetches that held a permit ended

browserVars == <<browser, init_lock, permits, has_chrome_path, call, fpc,
                 handle, open_tabs, launched, shutdowns, calls, got, exits>>

VARIABLES
    norm_url,         \* SearchResult.url of the result under normalization
    norm_keys         \* normalized_url() of norm_url, then of each key in turn

normVars == <<norm_url, norm_keys>>

InitNormVars ==
    /\ norm_url = <<>>
    /\ norm_keys = <<>>

VARIABLES
    proxies,          \* ProxyPool.proxies : the list behind the RwLock
    provider,         \* ProxyPool.provider.is_some()
    strategy,         \* ProxyPool.strategy
    current_index,    \* ProxyPool.current_index (AtomicUsize)
    enabled,          \* ProxyPool.enabled
    readers,          \* callers holding a read guard of the RwLock
    ppc,              \* per caller: the await point its call is suspended at
    plocal,           \* per caller: local value of the suspended call
    last_get,         \* history: the enabled flag and the return value of
                      \* the get_proxy call that returned last, or <<>>
    recent,           \* history: the last two indices selected since the
                      \* pool last changed
    built_empty,      \* history: the pool was constructed without provider
                      \* and with an empty list
    enabled_by_call   \* history: set_enabled(true) has been called

proxyVars == <<proxies, provider, strategy, current_index, enabled, readers,
               ppc, plocal, last_get, recent, built_empty, enabled_by_call>>

Callers == {"c1", "c2"}

NoneVal == "None"

InitProxyVars ==
    /\ proxies = <<>>
    /\ provider = FALSE
    /\ strategy = "RoundRobin"
    /\ current_index = 0
    /\ enabled = FALSE
    /\ readers = {}
    /\ ppc = [c \in Callers |-> "idle"]
    /\ plocal = [c \in Callers |-> NoneVal]
    /\ last_get = <<>>
    /\ recent = <<>>
    /\ built_empty = TRUE
    /\ enabled_by_call = FALSE

----------------------------------------------------------------------------
(* Bounds                                                                  *)

\* longest result list one engine returns
MaxResults == 2
\* most (engine, results) tuples handed to one aggregate call
MaxAggEngines == 2
\* most aggregate calls made on one input
MaxAggRuns == 2
\* most pieces a URL under normalization is put together from
MaxUrlParts == 3
\* most successive normalizations of one URL
MaxNormalizations == 2
\* longest proxy list of the pool
MaxProxies == 3
\* width in bits of usize, the type of the round-robin counter
UsizeBits == 2
\* BrowserPoolConfig.max_tabs of the pool under test
max_tabs == 2
\* most shutdown() calls on the pool
MaxShutdowns == 1
\* most fetch / acquire_browser calls on the pool
MaxCalls == 4

----------------------------------------------------------------------------
(* Fixed-point reals                                                       *)

EngineNames == {"E1", "E2", "E3"}

RECURSIVE Factorial(_)
Factorial(n) == IF n <= 1 THEN 1 ELSE n * Factorial(n - 1)

RECURSIVE Pow(_, _)
Pow(b, n) == IF n = 0 THEN 1 ELSE b * Pow(b, n - 1)

\* 1.0; divisible by every position and by 2^|EngineNames|
Unit == Pow(2, Cardinality(EngineNames)) * Factorial(MaxResults + 1)

FMul(x, y) == (x * y) \div Unit
FDivInt(x, n) == x \div n
FromInt(n) == n * Unit

----------------------------------------------------------------------------
(* Strings as sequences of characters                                      *)

HTTPS == <<"h", "t", "t", "p", "s", ":", "/", "/">>
HTTP == <<"h", "t", "t", "p", ":", "/", "/">>

UpperChars == <<"A", "B", "C", "H", "T", "P", "S">>
LowerChars == <<"a", "b", "c", "h", "t", "p", "s">>

to_lowercase_char(c) ==
    IF \E i \in 1..Len(UpperChars) : UpperChars[i] = c
    THEN LowerChars[CHOOSE i \in 1..Len(UpperChars) : UpperChars[i] = c]
    ELSE c

to_lowercase(s) == [i \in 1..Len(s) |-> to_lowercase_char(s[i])]

starts_with(s, pat) ==
    /\ Len(pat) <= Len(s)
    /\ SubSeq(s, 1, Len(pat)) = pat

\* str::trim_start_matches: removes the pattern repeatedly
RECURSIVE trim_start_matches(_, _)
trim_start_matches(s, pat) ==
    IF Len(pat) > 0 /\ starts_with(s, pat)
    THEN trim_start_matches(SubSeq(s, Len(pat) + 1, Len(s)), pat)
    ELSE s

\* str::trim_end_matches with a char pattern: removes it repeatedly
RECURSIVE trim_end_matches(_, _)
trim_end_matches(s, c) ==
    IF Len(s) > 0 /\ s[Len(s)] = c
    THEN trim_end_matches(SubSeq(s, 1, Len(s) - 1), c)
    ELSE s

normalized_url(url) ==
    to_lowercase(
        trim_end_matches(
            trim_start_matches(trim_start_matches(url, HTTPS), HTTP), "/"))

----------------------------------------------------------------------------
(* SearchResult / SearchResults (result.rs)                                *)

SearchResult_new(url, title, content) ==
    [url |-> url, title |-> title, content |-> content,
     engines |-> {}, positions |-> <<>>, score |-> 0,
     thumbnail |-> NoneVal, published_date |-> NoneVal]

with_thumbnail(r, t) == [r EXCEPT !.thumbnail = t]

with_published_date(r, d) == [r EXCEPT !.published_date = d]

SearchResults_new ==
    [results |-> <<>>, suggestions |-> <<>>, answers |-> <<>>,
     count |-> 0, duration_ms |-> 0]

add_result(sr, result) ==
    [sr EXCEPT !.results = Append(@, result),
               !.count = Len(sr.results) + 1]

set_duration(sr, ms) == [sr EXCEPT !.duration_ms = ms]

\* SearchResults carries no per-engine error record: the struct has the
\* fields results, suggestions, answers, count and duration_ms only.
errors(sr) ==
    IF "errors" \in DOMAIN sr THEN sr.errors ELSE <<>>

----------------------------------------------------------------------------
(* Aggregator (aggregator.rs)                                              *)

DefaultWeight == FromInt(1)

\* variant in which a title or content of equal length replaces the kept one
merge_results_ties_replace(existing, new, engine, position) ==
    [existing EXCEPT
        !.engines = @ \cup {engine},
        !.positions = Append(@, position),
        !.title = IF Len(new.title) >= Len(existing.title)
                  THEN new.title ELSE @,
        !.content = IF Len(new.content) >= Len(existing.content)
                    THEN new.content ELSE @,
        !.thumbnail = IF existing.thumbnail = NoneVal /\ new.thumbnail # NoneVal
                      THEN new.thumbnail ELSE @,
        !.published_date =
            IF existing.published_date = NoneVal /\ new.published_date # NoneVal
            THEN new.published_date ELSE @]

merge_results(existing, new, engine, position) ==
    [existing EXCEPT
        !.engines = @ \cup {engine},
        !.positions = Append(@, position),
        !.title = IF Len(new.title) > Len(existing.title)
                  THEN new.title ELSE @,
        !.content = IF Len(new.content) > Len(existing.content)
                    THEN new.content ELSE @,
        !.thumbnail = IF existing.thumbnail = NoneVal /\ new.thumbnail # NoneVal
                      THEN new.thumbnail ELSE @,
        !.published_date =
            IF existing.published_date = NoneVal /\ new.published_date # NoneVal
            THEN new.published_date ELSE @]

RECURSIVE weight_product(_, _, _)
weight_product(weights, engs, weight) ==
    IF engs = {} THEN weight
    ELSE LET engine == CHOOSE e \in engs : TRUE
             w == IF engine \in DOMAIN weights
                  THEN weights[engine] ELSE DefaultWeight
         IN weight_product(weights, engs \ {engine}, FMul(weight, w))

RECURSIVE sum_positions(_, _, _, _)
sum_positions(positions, i, weight, priority) ==
    IF i > Len(positions) THEN 0
    ELSE (CASE priority = "High" -> weight
            [] priority = "Normal" -> FDivInt(weight, positions[i])
            [] OTHER -> 0)
         + sum_positions(positions, i + 1, weight, priority)

\* variant without the factor |engines|
calculate_score_no_count(weights, result, priority) ==
    LET weight == weight_product(weights, result.engines, FromInt(1))
    IN sum_positions(result.positions, 1, weight, priority)

\* variant dividing by |engines| instead of multiplying
calculate_score_divide_count(weights, result, priority) ==
    LET weight == FDivInt(weight_product(weights, result.engines, FromInt(1)),
                          Cardinality(result.engines))
    IN sum_positions(result.positions, 1, weight, priority)

calculate_score(weights, result, priority) ==
    LET weight == FMul(weight_product(weights, result.engines, FromInt(1)),
                       FromInt(Cardinality(result.engines)))
    IN sum_positions(result.positions, 1, weight, priority)

\* variant keyed by the raw url instead of the normalized one
RECURSIVE insert_results_raw_key(_, _, _, _)
insert_results_raw_key(url_map, engine_name, results, i) ==
    IF i > Len(results) THEN url_map
    ELSE LET result == results[i]
             position == i
             next ==
                IF result.url \in DOMAIN url_map
                THEN [url_map EXCEPT ![result.url] =
                         merge_results(@, result, engine_name, position)]
                ELSE url_map @@ (result.url :>
                         [result EXCEPT !.engines = @ \cup {engine_name},
                                        !.positions = Append(@, position)])
         IN insert_results_raw_key(next, engine_name, results, i + 1)

\* the inner loop of aggregate: one engine's list, from index i on
RECURSIVE insert_results(_, _, _, _)
insert_results(url_map, engine_name, results, i) ==
    IF i > Len(results) THEN url_map
    ELSE LET result == results[i]
             normalized == normalized_url(result.url)
             position == i
             next ==
                IF normalized \in DOMAIN url_map
                THEN [url_map EXCEPT ![normalized] =
                         merge_results(@, result, engine_name, position)]
                ELSE url_map @@ (normalized :>
                         [result EXCEPT !.engines = @ \cup {engine_name},
                                        !.positions = Append(@, position)])
         IN insert_results(next, engine_name, results, i + 1)

\* the outer loop of aggregate
RECURSIVE build_url_map(_, _, _)
build_url_map(url_map, engine_results, k) ==
    IF k > Len(engine_results) THEN url_map
    ELSE build_url_map(
            insert_results(url_map, engine_results[k][1], engine_results[k][2], 1),
            engine_results, k + 1)

\* the comparator given to sort_by: b.score.partial_cmp(&a.score)
score_cmp_ascending(a, b) ==
    IF a.score < b.score THEN "Less"
    ELSE IF a.score > b.score THEN "Greater" ELSE "Equal"

score_cmp(a, b) ==
    IF b.score < a.score THEN "Less"
    ELSE IF b.score > a.score THEN "Greater" ELSE "Equal"

\* slice::sort_by is a stable sort: x, which came after everything in
\* sorted, goes behind every element that does not compare Greater than it
insert_sorted(sorted, x) ==
    LET before == {i \in 1..Len(sorted) : score_cmp(sorted[i], x) # "Greater"}
        k == IF before = {} THEN 0
             ELSE CHOOSE i \in before : \A j \in before : j <= i
    IN SubSeq(sorted, 1, k) \o <<x>> \o SubSeq(sorted, k + 1, Len(sorted))

RECURSIVE sort_by(_)
sort_by(s) ==
    IF Len(s) = 0 THEN <<>>
    ELSE insert_sorted(sort_by(SubSeq(s, 1, Len(s) - 1)), s[Len(s)])

RECURSIVE add_all(_, _, _)
add_all(sr, results, i) ==
    IF i > Len(results) THEN sr
    ELSE add_all(add_result(sr, results[i]), results, i + 1)

\* the iteration orders HashMap::into_values may produce
into_values_orders(url_map) ==
    LET keys == DOMAIN url_map
        n == Cardinality(keys)
    IN {o \in [1..n -> keys] : \A i, j \in 1..n : o[i] = o[j] => i = j}

\* aggregate, for one iteration order of the HashMap
aggregate(weights, engine_results, order) ==
    LET url_map == build_url_map(<<>>, engine_results, 1)
        results == [i \in 1..Len(order) |-> url_map[order[i]]]
        scored == [i \in 1..Len(results) |->
                      [results[i] EXCEPT !.score =
                          calculate_score(weights, results[i], "Normal")]]
    IN add_all(SearchResults_new, sort_by(scored), 1)

aggregate_outputs(weights, engine_results) ==
    {aggregate(weights, engine_results, o) :
        o \in into_values_orders(build_url_map(<<>>, engine_results, 1))}

----------------------------------------------------------------------------
(* Search orchestrator (search.rs)                                         *)

EngineConfigs ==
    { [name |-> "E1", shortcut |-> <<"e1">>, categories |-> {"general"},
       weight |-> FromInt(3), timeout |-> 1, enabled |-> TRUE],
      [name |-> "E2", shortcut |-> <<"e2">>, categories |-> {"general", "images"},
       weight |-> Unit \div 2, timeout |-> 2, enabled |-> TRUE],
      [name |-> "E3", shortcut |-> <<"e3">>, categories |-> {"images"},
       weight |-> FromInt(1), timeout |-> 2, enabled |-> TRUE],
      [name |-> "E3", shortcut |-> <<"e3">>, categories |-> {"images"},
       weight |-> FromInt(1), timeout |-> 2, enabled |-> FALSE] }

\* the lists an engine's search may return
EngineAnswers(name) ==
    LET r1 == SearchResult_new(HTTPS \o <<"A", "/", "p">>, "T1", "C1 longer")
        r2 == with_thumbnail(
                  SearchResult_new(HTTP \o <<"a", "/", "p", "/">>, "T2 longer", "C2"),
                  "thumb")
        r3 == with_published_date(SearchResult_new(HTTPS \o <<"b">>, "O", "Oc"),
                                  "2024")
        r4 == SearchResult_new(HTTP \o <<"c">>, "Cc", "")
    IN CASE name = "E1" -> {<<r1, r3>>, <<>>}
         [] name = "E2" -> {<<r2>>, <<r4, r2>>}
         [] OTHER -> {<<r3, r4>>}

Queries ==
    [query : {<<"r", "s">>, <<" ", "r", " ">>, <<" ", " ">>},
     engines : {<<>>, <<<<"e1">>, <<"e3">>>>, <<<<"zz">>>>},
     categories : {{"general"}, {"images"}, {"general", "images"}}]

is_whitespace(c) == c = " "

RECURSIVE trim_start(_)
trim_start(s) ==
    IF Len(s) > 0 /\ is_whitespace(s[1])
    THEN trim_start(SubSeq(s, 2, Len(s))) ELSE s

RECURSIVE trim_end(_)
trim_end(s) ==
    IF Len(s) > 0 /\ is_whitespace(s[Len(s)])
    THEN trim_end(SubSeq(s, 1, Len(s) - 1)) ELSE s

\* variant that leaves the text as it is
trim_nothing(s) == s

trim(s) == trim_end(trim_start(s))

contains(v, x) == \E i \in 1..Len(v) : v[i] = x

\* variant that does not look at the enabled flag
select_engines_ignore_enabled(engs, q) ==
    LET keep(engine) ==
            IF Len(q.engines) # 0 THEN contains(q.engines, engine.shortcut)
            ELSE \E cat \in q.categories : cat \in engine.categories
    IN SelectSeq(engs, keep)

select_engines(engs, q) ==
    LET keep(engine) ==
            IF ~engine.enabled THEN FALSE
            ELSE IF Len(q.engines) # 0 THEN contains(q.engines, engine.shortcut)
            ELSE \E cat \in q.categories : cat \in engine.categories
    IN SelectSeq(engs, keep)

\* Search::new sets default_timeout to 5 seconds
DefaultTimeoutSecs == 5

\* the values set_timeout is called with
TimeoutChoices == {1, 2}

\* set_timeout: stores the duration in default_timeout
set_timeout(timeout) ==
    /\ spc = "idle"
    /\ default_timeout # timeout
    /\ default_timeout' = timeout
    /\ UNCHANGED <<engines, engine_weights, spc, query, engines_to_use, tasks,
                   now, start, ret, outcome, settle_order, handed, invoked>>

SetTimeout == \E timeout \in TimeoutChoices : set_timeout(timeout)

\* variant that validates the query before looking at the registry
early_return_query_first(engs, q) ==
    IF Len(trim(q.query)) = 0 THEN "InvalidQuery"
    ELSE IF Len(engs) = 0 THEN "NoEngines"
    ELSE "None"

\* the two early returns of search(): the error returned, or None to go on
early_return(engs, q) ==
    IF Len(engs) = 0 THEN "NoEngines"
    ELSE IF Len(trim(q.query)) = 0 THEN "InvalidQuery"
    ELSE "None"

\* add_engine: registers the weight with the aggregator, pushes the engine
add_engine(config) ==
    /\ spc = "idle"
    /\ \A i \in 1..Len(engines) : engines[i].name # config.name
    /\ engine_weights' =
          [n \in DOMAIN engine_weights \cup {config.name} |->
              IF n = config.name THEN config.weight ELSE engine_weights[n]]
    /\ engines' = Append(engines, config)
    /\ UNCHANGED <<spc, query, engines_to_use, tasks, now, start, ret,
                   outcome, default_timeout, settle_order, handed, invoked>>

AddEngine == \E config \in EngineConfigs : add_engine(config)

Settled(kind, results, at) == [kind |-> kind, results |-> results, at |-> at]

Pending == [tag |-> "Pending"]
NoneOut == [tag |-> "None"]
SomeOut(name, results) == [tag |-> "Some", name |-> name, results |-> results]

\* the two early returns of search(), else creation of one future per
\* selected engine and the first poll of join_all
SearchStart ==
    /\ spc = "idle"
    /\ \E q \in Queries :
        /\ query' = q
        /\ IF early_return(engines, q) # "None"
           THEN /\ ret' = [tag |-> "Err", error |-> early_return(engines, q)]
                /\ spc' = "returned"
                /\ UNCHANGED <<engines_to_use, tasks, start, outcome, invoked>>
           ELSE LET sel == select_engines(engines, q)
                IN /\ engines_to_use' = sel
                   /\ tasks' = [i \in 1..Len(sel) |-> Pending]
                   /\ outcome' = [i \in 1..Len(sel) |-> Settled("pending", <<>>, 0)]
                   /\ invoked' = [i \in 1..Len(sel) |-> sel[i].name]
                   /\ start' = now
                   /\ spc' = "joining"
                   /\ UNCHANGED ret
    /\ UNCHANGED <<engines, engine_weights, now, default_timeout, settle_order,
                   handed>>

\* the deadline of tokio::time::timeout(Duration::from_secs(config.timeout), ..)
task_deadline_fixed(t0, engine) == t0 + 1

task_deadline(t0, engine) == t0 + engine.timeout

\* engine.search() completes with Ok(results); the timeout wrapper polls the
\* inner future first, so an answer present at the deadline is still taken
EngineOk(i) ==
    /\ spc = "joining"
    /\ tasks[i].tag = "Pending"
    /\ now <= task_deadline(start, engines_to_use[i])
    /\ \E results \in EngineAnswers(engines_to_use[i].name) :
          /\ tasks' = [tasks EXCEPT
                          ![i] = SomeOut(engines_to_use[i].name, results)]
          /\ outcome' = [outcome EXCEPT ![i] = Settled("success", results, now)]
    /\ settle_order' = Append(settle_order, i)
    /\ UNCHANGED <<engines, engine_weights, spc, query, engines_to_use, now,
                   start, ret, default_timeout, handed, invoked>>

\* engine.search() completes with Err(e)
EngineErr(i) ==
    /\ spc = "joining"
    /\ tasks[i].tag = "Pending"
    /\ now <= task_deadline(start, engines_to_use[i])
    /\ tasks' = [tasks EXCEPT ![i] = NoneOut]
    /\ outcome' = [outcome EXCEPT ![i] = Settled("error", <<>>, now)]
    /\ settle_order' = Append(settle_order, i)
    /\ UNCHANGED <<engines, engine_weights, spc, query, engines_to_use, now,
                   start, ret, default_timeout, handed, invoked>>

\* engine.search() panics while join_all polls it: nothing between the
\* engine and the caller of search() catches the unwinding, so the future of
\* search() is torn down with all its tasks and yields no value
EnginePanic(i) ==
    /\ spc = "joining"
    /\ tasks[i].tag = "Pending"
    /\ now <= task_deadline(start, engines_to_use[i])
    /\ outcome' = [outcome EXCEPT ![i] = Settled("panic", <<>>, now)]
    /\ spc' = "panicked"
    /\ UNCHANGED <<engines, engine_weights, query, engines_to_use, tasks, now,
                   start, ret, default_timeout, settle_order, handed, invoked>>

\* the deadline elapsed while engine.search() was still pending
EngineTimeout(i) ==
    /\ spc = "joining"
    /\ tasks[i].tag = "Pending"
    /\ now >= task_deadline(start, engines_to_use[i])
    /\ tasks' = [tasks EXCEPT ![i] = NoneOut]
    /\ outcome' = [outcome EXCEPT ![i] = Settled("timeout", <<>>, now)]
    /\ settle_order' = Append(settle_order, i)
    /\ UNCHANGED <<engines, engine_weights, spc, query, engines_to_use, now,
                   start, ret, default_timeout, handed, invoked>>

\* time passes while join_all is pending; a timer that is due fires first
Tick ==
    /\ spc = "joining"
    /\ \E i \in 1..Len(tasks) : tasks[i].tag = "Pending"
    /\ \A i \in 1..Len(tasks) :
          tasks[i].tag = "Pending" => now < task_deadline(start, engines_to_use[i])
    /\ now' = now + 1
    /\ UNCHANGED <<engines, engine_weights, spc, query, engines_to_use, tasks,
                   start, ret, outcome, default_timeout, settle_order, handed,
                   invoked>>

\* variant that gives up the whole batch when one task yielded None
flatten_all_or_nothing(outs) ==
    IF \E i \in 1..Len(outs) : outs[i].tag = "None" THEN <<>>
    ELSE [i \in 1..Len(outs) |-> <<outs[i].name, outs[i].results>>]

\* variant yielding the outputs in the order the futures completed
join_all_completion_order(outs, order) == [k \in 1..Len(order) |-> outs[order[k]]]

\* join_all yields the outputs in the order of the futures it was given
join_all(outs, order) == outs

\* join_all(..).into_iter().flatten().collect()
RECURSIVE flatten(_)
flatten(outs) ==
    IF Len(outs) = 0 THEN <<>>
    ELSE LET rest == flatten(SubSeq(outs, 2, Len(outs)))
         IN IF outs[1].tag = "Some"
            THEN <<<<outs[1].name, outs[1].results>>>> \o rest
            ELSE rest

\* join_all completes once every future has completed; then aggregate,
\* set_duration and return
SearchReturn ==
    /\ spc = "joining"
    /\ \A i \in 1..Len(tasks) : tasks[i].tag # "Pending"
    /\ LET results == flatten(join_all(tasks, settle_order))
       IN /\ handed' = results
          /\ \E sr \in aggregate_outputs(engine_weights, results) :
                ret' = [tag |-> "Ok",
                        value |-> set_duration(sr, (now - start) * 1000)]
    /\ spc' = "returned"
    /\ UNCHANGED <<engines, engine_weights, query, engines_to_use, tasks, now,
                   start, outcome, default_timeout, settle_order, invoked>>

InitSearchVars ==
    /\ engines = <<>>
    /\ spc = "idle"
    /\ query = [query |-> <<>>, engines |-> <<>>, categories |-> {"general"}]
    /\ engines_to_use = <<>>
    /\ tasks = <<>>
    /\ now = 0
    /\ start = 0
    /\ ret = [tag |-> "None"]
    /\ outcome = <<>>
    /\ default_timeout = DefaultTimeoutSecs
    /\ settle_order = <<>>
    /\ handed = <<>>
    /\ invoked = <<>>

----------------------------------------------------------------------------
(* BrowserPool and BrowserFetcher (browser.rs)                             *)

Procs == {"p1", "p2", "p3"}

BrowserIds == 1..(MaxShutdowns + 1)

\* a browser process lives as long as some Arc<Browser> to it exists: the
\* child is killed when the Browser value is dropped
AliveIn(b, cached, handles) == cached = b \/ \E p \in Procs : handles[p] = b

Alive == {b \in BrowserIds : AliveIn(b, browser, handle)}

\* the tabs of a killed browser process are gone
Reap(tabs, cached, handles) ==
    [b \in BrowserIds |-> IF AliveIn(b, cached, handles) THEN tabs[b] ELSE 0]

\* the fetch owns a SemaphorePermit from the acquire on
HoldsPermit(p) ==
    /\ call[p] = "fetch"
    /\ fpc[p] \in {"lock", "resolve", "launch", "new_page", "wait", "content",
                   "close"}

\* variant of the permit's drop that keeps the permit (SemaphorePermit::forget)
drop_permit_forget(avail) == avail

\* drop of the SemaphorePermit gives the permit back
drop_permit(avail) == avail + 1

\* variant of the mutex that lets every caller in
lock_is_free_unguarded(holder) == TRUE

\* self.browser.lock().await proceeds when nobody holds the mutex
lock_is_free(holder) == holder = "free"

\* variant of Leave in which the mutex guard is not dropped
Leave_keeping_guard(p, kind, tabs) ==
    LET handles == [handle EXCEPT ![p] = 0]
    IN /\ permits' = IF HoldsPermit(p) THEN drop_permit(permits) ELSE permits
       /\ handle' = handles
       /\ open_tabs' = Reap(tabs, browser, handles)
       /\ call' = [call EXCEPT ![p] = "none"]
       /\ fpc' = [fpc EXCEPT ![p] = "idle"]
       /\ exits' = IF HoldsPermit(p) THEN exits \cup {kind} ELSE exits
       /\ UNCHANGED <<browser, has_chrome_path, launched, shutdowns, calls, got,
                      init_lock>>

\* the call of p ends (return, `?`, or its future is dropped): the permit,
\* the mutex guard and the Arc<Browser> it owns are dropped
Leave(p, kind, tabs) ==
    LET handles == [handle EXCEPT ![p] = 0]
    IN /\ permits' = IF HoldsPermit(p) THEN drop_permit(permits) ELSE permits
       /\ init_lock' = IF init_lock = p THEN "free" ELSE init_lock
       /\ handle' = handles
       /\ open_tabs' = Reap(tabs, browser, handles)
       /\ call' = [call EXCEPT ![p] = "none"]
       /\ fpc' = [fpc EXCEPT ![p] = "idle"]
       /\ exits' = IF HoldsPermit(p) THEN exits \cup {kind} ELSE exits
       /\ UNCHANGED <<browser, has_chrome_path, launched, shutdowns, calls, got>>

\* BrowserFetcher::fetch is called: suspends at tab_semaphore().acquire()
FetchCall(p) ==
    /\ call[p] = "none"
    /\ calls < MaxCalls
    /\ call' = [call EXCEPT ![p] = "fetch"]
    /\ fpc' = [fpc EXCEPT ![p] = "permit"]
    /\ calls' = calls + 1
    /\ UNCHANGED <<browser, init_lock, permits, has_chrome_path, handle,
                   open_tabs, launched, shutdowns, got, exits>>

\* BrowserPool::acquire_browser is called directly
AcquireCall(p) ==
    /\ call[p] = "none"
    /\ calls < MaxCalls
    /\ call' = [call EXCEPT ![p] = "acquire"]
    /\ fpc' = [fpc EXCEPT ![p] = "lock"]
    /\ calls' = calls + 1
    /\ UNCHANGED <<browser, init_lock, permits, has_chrome_path, handle,
                   open_tabs, launched, shutdowns, got, exits>>

\* the semaphore hands out a permit
AcquirePermit(p) ==
    /\ fpc[p] = "permit"
    /\ permits > 0
    /\ permits' = permits - 1
    /\ fpc' = [fpc EXCEPT ![p] = "lock"]
    /\ UNCHANGED <<browser, init_lock, has_chrome_path, call, handle,
                   open_tabs, launched, shutdowns, calls, got, exits>>

\* where the caller of acquire_browser continues with its handle
AfterAcquire(p) == IF call[p] = "fetch" THEN "new_page" ELSE "holding"

\* acquire_browser gets the mutex and finds a cached browser: returns it
AcquireCached(p) ==
    /\ fpc[p] = "lock"
    /\ lock_is_free(init_lock)
    /\ browser # 0
    /\ handle' = [handle EXCEPT ![p] = browser]
    /\ fpc' = [fpc EXCEPT ![p] = AfterAcquire(p)]
    /\ got' = got \cup {<<shutdowns, browser, "cached">>}
    /\ UNCHANGED <<browser, init_lock, permits, has_chrome_path, call,
                   open_tabs, launched, shutdowns, calls, exits>>

\* acquire_browser gets the mutex and finds None: goes on to launch,
\* keeping the guard
AcquireLock(p) ==
    /\ fpc[p] = "lock"
    /\ lock_is_free(init_lock)
    /\ browser = 0
    /\ init_lock' = p
    /\ fpc' = [fpc EXCEPT ![p] = IF has_chrome_path THEN "launch" ELSE "resolve"]
    /\ UNCHANGED <<browser, permits, has_chrome_path, call, handle, open_tabs,
                   launched, shutdowns, calls, got, exits>>

\* browser_setup::ensure_chrome() returns a path
ResolveOk(p) ==
    /\ fpc[p] = "resolve"
    /\ fpc' = [fpc EXCEPT ![p] = "launch"]
    /\ UNCHANGED <<browser, init_lock, permits, has_chrome_path, call, handle,
                   open_tabs, launched, shutdowns, calls, got, exits>>

\* ensure_chrome() fails: `?` returns the error through fetch
ResolveErr(p) ==
    /\ fpc[p] = "resolve"
    /\ Leave(p, "err", open_tabs)

\* Browser::launch succeeds: the handle is cached and returned
LaunchOk(p) ==
    /\ fpc[p] = "launch"
    /\ launched < MaxShutdowns + 1
    /\ launched' = launched + 1
    /\ browser' = launched + 1
    /\ handle' = [handle EXCEPT ![p] = launched + 1]
    /\ init_lock' = IF init_lock = p THEN "free" ELSE init_lock
    /\ open_tabs' = Reap(open_tabs, launched + 1, handle')
    /\ fpc' = [fpc EXCEPT ![p] = AfterAcquire(p)]
    /\ got' = got \cup {<<shutdowns, launched + 1, "launched">>}
    /\ UNCHANGED <<permits, has_chrome_path, call, shutdowns, calls, exits>>

\* Browser::launch fails: map_err, `?`
LaunchErr(p) ==
    /\ fpc[p] = "launch"
    /\ Leave(p, "err", open_tabs)

\* browser.new_page(url) opens a tab
NewPageOk(p) ==
    /\ fpc[p] = "new_page"
    /\ open_tabs' = [open_tabs EXCEPT ![handle[p]] = @ + 1]
    /\ fpc' = [fpc EXCEPT ![p] = "wait"]
    /\ UNCHANGED <<browser, init_lock, permits, has_chrome_path, call, handle,
                   launched, shutdowns, calls, got, exits>>

NewPageErr(p) ==
    /\ fpc[p] = "new_page"
    /\ Leave(p, "err", open_tabs)

\* set_user_agent and the wait strategy complete
WaitOk(p) ==
    /\ fpc[p] = "wait"
    /\ fpc' = [fpc EXCEPT ![p] = "content"]
    /\ UNCHANGED <<browser, init_lock, permits, has_chrome_path, call, handle,
                   open_tabs, launched, shutdowns, calls, got, exits>>

\* set_user_agent or wait_for_navigation fails: `?` returns, the Page is
\* dropped, page.close() is not reached
WaitErr(p) ==
    /\ fpc[p] = "wait"
    /\ Leave(p, "err", open_tabs)

\* page.content() returns the html
ContentOk(p) ==
    /\ fpc[p] = "content"
    /\ fpc' = [fpc EXCEPT ![p] = "close"]
    /\ UNCHANGED <<browser, init_lock, permits, has_chrome_path, call, handle,
                   open_tabs, launched, shutdowns, calls, got, exits>>

ContentErr(p) ==
    /\ fpc[p] = "content"
    /\ Leave(p, "err", open_tabs)

\* page.close() closes the tab; fetch returns Ok(html)
CloseOk(p) ==
    /\ fpc[p] = "close"
    /\ Leave(p, "ok", [open_tabs EXCEPT ![handle[p]] = @ - 1])

\* page.close() fails: logged, fetch still returns Ok(html)
CloseErr(p) ==
    /\ fpc[p] = "close"
    /\ Leave(p, "ok", open_tabs)

\* the future of the call is dropped at an await point (engine deadline,
\* or the caller dropped search())
Cancel(p) ==
    /\ fpc[p] \in {"permit", "lock", "resolve", "launch", "new_page", "wait",
                   "content", "close"}
    /\ Leave(p, "cancel", open_tabs)

\* a direct caller of acquire_browser drops its Arc<Browser>
DropHandle(p) ==
    /\ fpc[p] = "holding"
    /\ Leave(p, "ok", open_tabs)

\* BrowserPool::shutdown: takes the cached handle under the mutex
Shutdown ==
    /\ lock_is_free(init_lock)
    /\ shutdowns < MaxShutdowns
    /\ shutdowns' = shutdowns + 1
    /\ browser' = 0
    /\ open_tabs' = Reap(open_tabs, 0, handle)
    /\ UNCHANGED <<init_lock, permits, has_chrome_path, call, fpc, handle,
                   launched, calls, got, exits>>

\* BrowserPool::new
InitBrowserVars ==
    /\ browser = 0
    /\ init_lock = "free"
    /\ permits = max_tabs
    /\ call = [p \in Procs |-> "none"]
    /\ fpc = [p \in Procs |-> "idle"]
    /\ handle = [p \in Procs |-> 0]
    /\ open_tabs = [b \in BrowserIds |-> 0]
    /\ launched = 0
    /\ shutdowns = 0
    /\ calls = 0
    /\ got = {}
    /\ exits = {}

InitBrowser ==
    /\ InitBrowserVars
    /\ InitNormVars
    /\ InitProxyVars
    /\ has_chrome_path \in BOOLEAN
    /\ InitSearchVars
    /\ engine_weights = <<>>
    /\ agg_input = <<>>
    /\ agg_output = <<>>

NextBrowser ==
    /\ UNCHANGED <<aggVars, searchVars, normVars, proxyVars>>
    /\ \/ \E p \in Procs : FetchCall(p)
       \/ \E p \in Procs : AcquireCall(p)
       \/ \E p \in Procs : AcquirePermit(p)
       \/ \E p \in Procs : AcquireCached(p)
       \/ \E p \in Procs : AcquireLock(p)
       \/ \E p \in Procs : ResolveOk(p)
       \/ \E p \in Procs : ResolveErr(p)
       \/ \E p \in Procs : LaunchOk(p)
       \/ \E p \in Procs : LaunchErr(p)
       \/ \E p \in Procs : NewPageOk(p)
       \/ \E p \in Procs : NewPageErr(p)
       \/ \E p \in Procs : WaitOk(p)
       \/ \E p \in Procs : WaitErr(p)
       \/ \E p \in Procs : ContentOk(p)
       \/ \E p \in Procs : ContentErr(p)
       \/ \E p \in Procs : CloseOk(p)
       \/ \E p \in Procs : CloseErr(p)
       \/ \E p \in Procs : Cancel(p)
       \/ \E p \in Procs : DropHandle(p)
       \/ Shutdown

----------------------------------------------------------------------------
(* Inputs of the aggregator specification                                  *)

RawResults ==
    { SearchResult_new(HTTPS \o <<"A", "/", "p">>, "T1", "C1 longer"),
      with_thumbnail(
          SearchResult_new(HTTP \o <<"a", "/", "p", "/">>, "T2 longer", "C2"),
          "thumb"),
      with_published_date(SearchResult_new(HTTPS \o <<"b">>, "O", "Oc"), "2024"),
      SearchResult_new(HTTP \o <<"c">>, "Cc", ""),
      SearchResult_new(<<"a", "/", "P">>, "T5", "C5 longer") }

ResultLists == UNION {[1..n -> RawResults] : n \in 0..MaxResults}

EngineOrders ==
    UNION {{o \in [1..n -> EngineNames] : \A i, j \in 1..n : o[i] = o[j] => i = j} :
           n \in 0..MaxAggEngines}

EngineResultsInputs ==
    UNION {{[k \in 1..Len(o) |-> <<o[k], l[k]>>] : l \in [1..Len(o) -> ResultLists]} :
           o \in EngineOrders}

WeightConfigs ==
    { ("E1" :> FromInt(3)) @@ ("E2" :> Unit \div 2),
      ("E1" :> FromInt(1)) @@ ("E2" :> FromInt(1)) @@ ("E3" :> FromInt(1)),
      ("E1" :> FromInt(1)) @@ ("E2" :> Unit \div 4),
      ("E1" :> Unit \div 2) @@ ("E2" :> Unit \div 2) @@ ("E3" :> Unit \div 2) }

InitAgg ==
    /\ InitSearchVars
    /\ InitNormVars
    /\ InitProxyVars
    /\ InitBrowserVars
    /\ has_chrome_path = TRUE
    /\ engine_weights \in WeightConfigs
    /\ agg_input \in EngineResultsInputs
    /\ agg_output = <<>>

AggregateCall ==
    /\ Len(agg_output) < MaxAggRuns
    /\ \E sr \in aggregate_outputs(engine_weights, agg_input) :
          agg_output' = Append(agg_output, sr)
    /\ UNCHANGED <<engine_weights, agg_input>>
    /\ UNCHANGED <<searchVars, browserVars, normVars, proxyVars>>

vars == <<aggVars, searchVars, browserVars, normVars, proxyVars>>

InitSearch ==
    /\ InitSearchVars
    /\ InitNormVars
    /\ InitProxyVars
    /\ InitBrowserVars
    /\ has_chrome_path = TRUE
    /\ engine_weights = <<>>
    /\ agg_input = <<>>
    /\ agg_output = <<>>

NextSearch ==
    \/ AddEngine /\ UNCHANGED <<agg_input, agg_output, browserVars, normVars, proxyVars>>
    \/ SetTimeout /\ UNCHANGED <<agg_input, agg_output, browserVars, normVars, proxyVars>>
    \/ SearchStart /\ UNCHANGED <<agg_input, agg_output, browserVars, normVars, proxyVars>>
    \/ \E i \in 1..Len(tasks) : EngineOk(i) /\ UNCHANGED <<agg_input, agg_output, browserVars, normVars, proxyVars>>
    \/ \E i \in 1..Len(tasks) : EngineErr(i) /\ UNCHANGED <<agg_input, agg_output, browserVars, normVars, proxyVars>>
    \/ \E i \in 1..Len(tasks) : EngineTimeout(i) /\ UNCHANGED <<agg_input, agg_output, browserVars, normVars, proxyVars>>
    \/ \E i \in 1..Len(tasks) : EnginePanic(i) /\ UNCHANGED <<agg_input, agg_output, browserVars, normVars, proxyVars>>
    \/ Tick /\ UNCHANGED <<agg_input, agg_output, browserVars, normVars, proxyVars>>
    \/ SearchReturn /\ UNCHANGED <<agg_input, agg_output, browserVars, normVars, proxyVars>>

NextAgg == AggregateCall

SpecAgg == InitAgg /\ [][NextAgg]_vars

SpecSearch == InitSearch /\ [][NextSearch]_vars

SpecBrowser == InitBrowser /\ [][NextBrowser]_vars

----------------------------------------------------------------------------
(* URL normalization on its own (result.rs)                                *)

\* pieces the URLs under normalization are put together from
UrlTokens ==
    { HTTPS, HTTP, <<"H", "T", "T", "P", ":", "/", "/">>,
      <<"a">>, <<"B">>, <<"/">> }

\* the URLs made of at most n pieces
RECURSIVE UrlStrings(_)
UrlStrings(n) ==
    IF n = 0 THEN {<<>>}
    ELSE LET shorter == UrlStrings(n - 1)
         IN shorter \cup {t \o u : t \in UrlTokens, u \in shorter}

InitNorm ==
    /\ InitSearchVars
    /\ InitBrowserVars
    /\ has_chrome_path = TRUE
    /\ engine_weights = <<>>
    /\ agg_input = <<>>
    /\ agg_output = <<>>
    /\ norm_url \in UrlStrings(MaxUrlParts)
    /\ norm_keys = <<>>
    /\ InitProxyVars

\* normalized_url() of a result whose url is norm_url, or else the key
\* computed last
Normalize ==
    /\ Len(norm_keys) < MaxNormalizations
    /\ LET url == IF norm_keys = <<>> THEN norm_url
                  ELSE norm_keys[Len(norm_keys)]
       IN norm_keys' = Append(norm_keys, normalized_url(url))
    /\ UNCHANGED norm_url
    /\ UNCHANGED <<aggVars, searchVars, browserVars, proxyVars>>

NextNorm == Normalize

SpecNorm == InitNorm /\ [][NextNorm]_vars

----------------------------------------------------------------------------
(* ProxyPool (proxy.rs)                                                    *)

\* the proxies add_proxy and remove_proxy are called with, each standing
\* for one (host, port)
AddedProxies == {"x1", "x3"}
RemovedProxies == {"x1", "x2"}

\* the lists a pool is constructed with by with_proxies
StaticLists == {<<>>, <<"x1", "x2">>, <<"x1", "x2", "x3">>}

\* the lists the provider's fetch_proxies may return
ProviderLists == {<<"x3", "x1">>}

\* usize::MAX + 1
UsizeModulus == Pow(2, UsizeBits)

SomeProxy(x) == [tag |-> "Some", proxy |-> x]
NoProxy == [tag |-> "None"]

\* ProxyPool::new, with_proxies, with_provider, each followed or not by
\* with_strategy
InitProxy ==
    /\ InitSearchVars
    /\ InitBrowserVars
    /\ InitNormVars
    /\ has_chrome_path = TRUE
    /\ engine_weights = <<>>
    /\ agg_input = <<>>
    /\ agg_output = <<>>
    /\ \/ /\ provider = FALSE
          /\ proxies \in StaticLists
          /\ enabled = (Len(proxies) # 0)
       \/ /\ provider = TRUE
          /\ proxies = <<>>
          /\ enabled = TRUE
    /\ built_empty = (~provider /\ proxies = <<>>)
    /\ strategy \in {"RoundRobin", "Random"}
    /\ current_index = 0
    /\ readers = {}
    /\ ppc = [c \in Callers |-> "idle"]
    /\ plocal = [c \in Callers |-> NoneVal]
    /\ last_get = <<>>
    /\ recent = <<>>
    /\ enabled_by_call = FALSE

\* variant that hands out the write guard while read guards are held
write_granted_despite_readers(rs) == TRUE

\* RwLock::write is granted when no read guard is held (a write guard is
\* held within one step only)
write_granted(rs) == rs = {}

\* set_enabled: takes &mut self, so no other call is in progress
set_enabled(flag) ==
    /\ \A c \in Callers : ppc[c] = "idle"
    /\ enabled # flag
    /\ enabled' = flag
    /\ enabled_by_call' = (enabled_by_call \/ flag)
    /\ recent' = <<>>
    /\ UNCHANGED <<proxies, provider, strategy, current_index, readers, ppc,
                   plocal, last_get, built_empty>>

SetEnabled == \E flag \in BOOLEAN : set_enabled(flag)

\* variant of the enabled check that always passes
GetProxyCall_unchecked(c) ==
    /\ ppc[c] = "idle"
    /\ ppc' = [ppc EXCEPT ![c] = "get_read"]
    /\ UNCHANGED <<proxies, provider, strategy, current_index, enabled,
                   readers, plocal, recent, built_empty, enabled_by_call,
                   last_get>>

\* get_proxy up to the await of the read guard: the enabled check
GetProxyCall(c) ==
    /\ ppc[c] = "idle"
    /\ IF ~enabled
       THEN /\ last_get' = <<[enabled |-> enabled, result |-> NoProxy]>>
            /\ UNCHANGED ppc
       ELSE /\ ppc' = [ppc EXCEPT ![c] = "get_read"]
            /\ UNCHANGED last_get
    /\ UNCHANGED <<proxies, provider, strategy, current_index, enabled,
                   readers, plocal, recent, built_empty, enabled_by_call>>

\* the index get_proxy computes: fetch_add(1) % len for RoundRobin, the
\* clock's nanoseconds % len for Random
SelectIndices(strat, counter, len) ==
    IF strat = "RoundRobin" THEN {counter % len} ELSE 0..(len - 1)

\* get_proxy from the read guard to the index: is_empty check, fetch_add
GetProxySelect(c) ==
    /\ ppc[c] = "get_read"
    /\ IF Len(proxies) = 0
       THEN /\ last_get' = <<[enabled |-> enabled, result |-> NoProxy]>>
            /\ ppc' = [ppc EXCEPT ![c] = "idle"]
            /\ UNCHANGED <<current_index, readers, plocal, recent>>
       ELSE /\ \E index \in SelectIndices(strategy, current_index, Len(proxies)) :
                  /\ plocal' = [plocal EXCEPT ![c] = index]
                  /\ recent' = IF recent = <<>> THEN <<index>>
                             ELSE <<recent[Len(recent)], index>>
            /\ current_index' =
                  IF strategy = "RoundRobin"
                  THEN (current_index + 1) % UsizeModulus
                  ELSE current_index
            /\ readers' = readers \cup {c}
            /\ ppc' = [ppc EXCEPT ![c] = "get_fetch"]
            /\ UNCHANGED last_get
    /\ UNCHANGED <<proxies, provider, strategy, enabled, built_empty,
                   enabled_by_call>>

\* get_proxy: proxies.get(index).cloned(), then the read guard is dropped
GetProxyFetch(c) ==
    /\ ppc[c] = "get_fetch"
    /\ last_get' = <<[enabled |-> enabled,
                      result |-> IF plocal[c] < Len(proxies)
                                 THEN SomeProxy(proxies[plocal[c] + 1])
                                 ELSE NoProxy]>>
    /\ readers' = readers \ {c}
    /\ ppc' = [ppc EXCEPT ![c] = "idle"]
    /\ plocal' = [plocal EXCEPT ![c] = NoneVal]
    /\ UNCHANGED <<proxies, provider, strategy, current_index, enabled,
                   recent, built_empty, enabled_by_call>>

\* add_proxy: push under the write guard
add_proxy(c, proxy) ==
    /\ ppc[c] = "idle"
    /\ write_granted(readers)
    /\ Len(proxies) < MaxProxies
    /\ proxies' = Append(proxies, proxy)
    /\ recent' = <<>>
    /\ UNCHANGED <<provider, strategy, current_index, enabled, readers, ppc,
                   plocal, last_get, built_empty, enabled_by_call>>

AddProxy == \E c \in Callers, proxy \in AddedProxies : add_proxy(c, proxy)

retain_others(list, proxy) == SelectSeq(list, LAMBDA x : x # proxy)

\* remove_proxy: retain under the write guard
remove_proxy(c, proxy) ==
    /\ ppc[c] = "idle"
    /\ write_granted(readers)
    /\ proxies' = retain_others(proxies, proxy)
    /\ recent' = <<>>
    /\ UNCHANGED <<provider, strategy, current_index, enabled, readers, ppc,
                   plocal, last_get, built_empty, enabled_by_call>>

RemoveProxy == \E c \in Callers, proxy \in RemovedProxies : remove_proxy(c, proxy)

\* refresh without provider returns Ok at once; with one it awaits
\* fetch_proxies
RefreshCall(c) ==
    /\ ppc[c] = "idle"
    /\ ppc' = [ppc EXCEPT ![c] = IF provider THEN "refresh_fetch" ELSE "refresh_ok"]
    /\ UNCHANGED <<proxies, provider, strategy, current_index, enabled,
                   readers, plocal, last_get, recent, built_empty,
                   enabled_by_call>>

\* fetch_proxies returned Ok(list): refresh goes on to the write guard
RefreshFetchOk(c) ==
    /\ ppc[c] = "refresh_fetch"
    /\ \E list \in ProviderLists : plocal' = [plocal EXCEPT ![c] = list]
    /\ ppc' = [ppc EXCEPT ![c] = "refresh_write"]
    /\ UNCHANGED <<proxies, provider, strategy, current_index, enabled,
                   readers, last_get, recent, built_empty, enabled_by_call>>

\* fetch_proxies returned Err: refresh returns it through `?`
RefreshFetchErr(c) ==
    /\ ppc[c] = "refresh_fetch"
    /\ ppc' = [ppc EXCEPT ![c] = "refresh_err"]
    /\ UNCHANGED <<proxies, provider, strategy, current_index, enabled,
                   readers, plocal, last_get, recent, built_empty,
                   enabled_by_call>>

\* variant that adds the fetched proxies to the list
refresh_assign_extend(old, new) == old \o new

\* *proxies = new_proxies
refresh_assign(old, new) == new

\* refresh: assignment under the write guard, then Ok
RefreshApply(c) ==
    /\ ppc[c] = "refresh_write"
    /\ write_granted(readers)
    /\ proxies' = refresh_assign(proxies, plocal[c])
    /\ plocal' = [plocal EXCEPT ![c] = NoneVal]
    /\ recent' = <<>>
    /\ ppc' = [ppc EXCEPT ![c] = "refresh_ok"]
    /\ UNCHANGED <<provider, strategy, current_index, enabled, readers,
                   last_get, built_empty, enabled_by_call>>

\* the caller of refresh takes its Ok(()) or Err
RefreshReturn(c) ==
    /\ ppc[c] \in {"refresh_ok", "refresh_err"}
    /\ ppc' = [ppc EXCEPT ![c] = "idle"]
    /\ UNCHANGED <<proxies, provider, strategy, current_index, enabled,
                   readers, plocal, last_get, recent, built_empty,
                   enabled_by_call>>

NextProxy ==
    /\ UNCHANGED <<aggVars, searchVars, browserVars, normVars>>
    /\ \/ SetEnabled
       \/ \E c \in Callers : GetProxyCall(c)
       \/ \E c \in Callers : GetProxySelect(c)
       \/ \E c \in Callers : GetProxyFetch(c)
       \/ AddProxy
       \/ RemoveProxy
       \/ \E c \in Callers : RefreshCall(c)
       \/ \E c \in Callers : RefreshFetchOk(c)
       \/ \E c \in Callers : RefreshFetchErr(c)
       \/ \E c \in Callers : RefreshApply(c)
       \/ \E c \in Callers : RefreshReturn(c)

SpecProxy == InitProxy /\ [][NextProxy]_vars

----------------------------------------------------------------------------
(* Properties of Aggregator::aggregate (specification SpecAgg)             *)

\* every (engine, position, result) triple of an aggregate argument
InputEntries(engine_results) ==
    UNION {{<<engine_results[k][1], i, engine_results[k][2][i]>> :
              i \in 1..Len(engine_results[k][2])} : k \in 1..Len(engine_results)}

InputKeys(engine_results) ==
    {normalized_url(t[3].url) : t \in InputEntries(engine_results)}

EnginesReturning(engine_results, key) ==
    {t[1] : t \in {x \in InputEntries(engine_results) :
                      normalized_url(x[3].url) = key}}

AggItems == agg_output[1].results

\* C8: in the output of aggregate no two items share a normalized URL,
\* every normalized URL of the input belongs to exactly one item, and
\* count is the number of distinct normalized URLs of the input.
C8_DedupByNormalizedUrl ==
    agg_output # <<>> =>
        /\ \A i, j \in 1..Len(AggItems) :
              normalized_url(AggItems[i].url) = normalized_url(AggItems[j].url)
                  => i = j
        /\ {normalized_url(AggItems[i].url) : i \in 1..Len(AggItems)}
              = InputKeys(agg_input)
        /\ agg_output[1].count = Cardinality(InputKeys(agg_input))
        /\ agg_output[1].count = Len(AggItems)

\* C8 witness: two results with different raw urls and the same normalized
\* url, from different engines, were aggregated together with another url.
C8_Witness ==
    /\ agg_output # <<>>
    /\ Len(agg_input) = 2
    /\ \E t1, t2 \in InputEntries(agg_input) :
          /\ t1[1] # t2[1]
          /\ t1[3].url # t2[3].url
          /\ normalized_url(t1[3].url) = normalized_url(t2[3].url)
    /\ agg_output[1].count = 2

\* C9 (as claimed): for every item of aggregate, on every input,
\* |engines| = |positions|, both are non-empty, and both equal the number
\* of distinct engines that returned the item's URL.
C9_EnginesMatchPositions ==
    agg_output # <<>> =>
        \A i \in 1..Len(AggItems) :
            LET n == Cardinality(
                        EnginesReturning(agg_input,
                                         normalized_url(AggItems[i].url)))
            IN /\ Cardinality(AggItems[i].engines) = Len(AggItems[i].positions)
               /\ Len(AggItems[i].positions) > 0
               /\ Cardinality(AggItems[i].engines) = n

\* C10: the items returned by aggregate are sorted by score, non-increasing.
C10_SortedByScore ==
    agg_output # <<>> =>
        \A i \in 1..Len(AggItems) - 1 :
            AggItems[i].score >= AggItems[i + 1].score

\* C10 witness: an output of three items whose scores are not all equal.
C10_Witness ==
    /\ agg_output # <<>>
    /\ Len(AggItems) = 3
    /\ AggItems[1].score > AggItems[3].score

\* C11 (as claimed): two runs of aggregate with the same weights and the
\* same input return identical outputs, tied items included.
C11_Deterministic ==
    Len(agg_output) >= 2 => agg_output[1] = agg_output[2]

\* the configured weight of an engine, 1.0 when none is configured
ConfiguredWeight(engine) ==
    IF engine \in DOMAIN engine_weights THEN engine_weights[engine] ELSE FromInt(1)

RECURSIVE ProductOver(_)
ProductOver(engs) ==
    IF engs = {} THEN FromInt(1)
    ELSE LET e == CHOOSE x \in engs : TRUE
         IN FMul(ConfiguredWeight(e), ProductOver(engs \ {e}))

\* W = (product of the weights of the bucket's engines) * |engines|
BucketWeight(item) == ProductOver(item.engines) * Cardinality(item.engines)

RECURSIVE SumOverPositions(_, _)
SumOverPositions(w, positions) ==
    IF Len(positions) = 0 THEN 0
    ELSE (w \div positions[Len(positions)])
         + SumOverPositions(w, SubSeq(positions, 1, Len(positions) - 1))

\* C13: every bucket's score is the sum over its positions p of W / p, with
\* W the product of the configured weights of its engines (1.0 when none is
\* configured) times the number of its engines.
C13_ScoreFormula ==
    agg_output # <<>> =>
        \A i \in 1..Len(AggItems) :
            AggItems[i].score =
                SumOverPositions(BucketWeight(AggItems[i]), AggItems[i].positions)

\* C13 witness: a bucket of two engines, one of them without a configured
\* weight, found at different positions.
C13_Witness ==
    /\ agg_output # <<>>
    /\ \E i \in 1..Len(AggItems) :
          /\ Cardinality(AggItems[i].engines) = 2
          /\ \E e \in AggItems[i].engines : e \notin DOMAIN engine_weights
          /\ \E e \in AggItems[i].engines :
                e \in DOMAIN engine_weights /\ engine_weights[e] # FromInt(1)
          /\ AggItems[i].positions = <<1, 2>>

\* the input without the engine that was added last
WithoutLast == SubSeq(agg_input, 1, Len(agg_input) - 1)

LastEngine == agg_input[Len(agg_input)][1]

\* score of the bucket of key in the aggregation of engine_results
ScoreIn(engine_results, key) ==
    calculate_score(engine_weights,
                    build_url_map(<<>>, engine_results, 1)[key], "Normal")

\* the buckets that the last engine of the input shares with the others
SharedWithLast ==
    {i \in 1..Len(AggItems) :
        /\ normalized_url(AggItems[i].url) \in InputKeys(WithoutLast)
        /\ LastEngine \in EnginesReturning(agg_input,
                                           normalized_url(AggItems[i].url))}

\* C14 (as claimed): adding one more engine, with any positive weight and
\* at any position, that also returns URL u never decreases score(u).
C14_AddEngineMonotone ==
    agg_output # <<>> /\ Len(agg_input) >= 2 =>
        \A i \in SharedWithLast :
            AggItems[i].score >=
                ScoreIn(WithoutLast, normalized_url(AggItems[i].url))

\* C14 (amended): adding one more engine whose weight is at least 1.0 and
\* that also returns URL u never decreases score(u).
C14_AddHeavyEngineMonotone ==
    agg_output # <<>> /\ Len(agg_input) >= 2
        /\ ConfiguredWeight(LastEngine) >= FromInt(1) =>
        \A i \in SharedWithLast :
            AggItems[i].score >=
                ScoreIn(WithoutLast, normalized_url(AggItems[i].url))

\* C14 witness: an engine of weight 3.0 was added below the position of the
\* first engine and the score of the shared URL went up.
C14_Witness ==
    /\ agg_output # <<>> /\ Len(agg_input) >= 2
    /\ ConfiguredWeight(LastEngine) = FromInt(3)
    /\ \E i \in SharedWithLast :
          /\ AggItems[i].positions = <<1, 2>>
          /\ AggItems[i].score >
                ScoreIn(WithoutLast, normalized_url(AggItems[i].url))

\* the results of an aggregate argument, in the order aggregate visits them
RECURSIVE FlatResults(_)
FlatResults(engine_results) ==
    IF Len(engine_results) = 0 THEN <<>>
    ELSE engine_results[1][2] \o FlatResults(Tail(engine_results))

\* the results merged into the bucket of key, in input order
MergedInto(key) ==
    SelectSeq(FlatResults(agg_input), LAMBDA r : normalized_url(r.url) = key)

\* the first of the longest texts of a sequence
FirstLongest(texts) ==
    texts[CHOOSE i \in 1..Len(texts) :
              /\ \A j \in 1..Len(texts) : Len(texts[j]) <= Len(texts[i])
              /\ \A j \in 1..(i - 1) : Len(texts[j]) < Len(texts[i])]

\* C24: the title of a bucket is the longest title among the results merged
\* into it, the first one in input order among equally long ones; likewise
\* its content; its url is the url of the first result seen for its
\* normalized URL.
C24_MergedFields ==
    agg_output # <<>> =>
        \A i \in 1..Len(AggItems) :
            LET merged == MergedInto(normalized_url(AggItems[i].url))
            IN /\ Len(merged) > 0
               /\ AggItems[i].title =
                     FirstLongest([k \in 1..Len(merged) |-> merged[k].title])
               /\ AggItems[i].content =
                     FirstLongest([k \in 1..Len(merged) |-> merged[k].content])
               /\ AggItems[i].url = merged[1].url

\* C24 witness: three results were merged into one bucket; the first and
\* the third have equally long titles and equally long contents with
\* different texts, the second has a longer title and a shorter content.
C24_Witness ==
    /\ agg_output # <<>>
    /\ \E i \in 1..Len(AggItems) :
          LET merged == MergedInto(normalized_url(AggItems[i].url))
          IN /\ Len(merged) = 3
             /\ Len(merged[1].title) = Len(merged[3].title)
             /\ merged[1].title # merged[3].title
             /\ Len(merged[2].title) > Len(merged[1].title)
             /\ Len(merged[1].content) = Len(merged[3].content)
             /\ merged[1].content # merged[3].content
             /\ Len(merged[2].content) < Len(merged[1].content)
             /\ merged[1].url # merged[2].url
             /\ AggItems[i].title = merged[2].title
             /\ AggItems[i].content = merged[1].content

\* all engines of the input have the same configured weight
EqualWeights ==
    \A k, l \in 1..Len(agg_input) :
        ConfiguredWeight(agg_input[k][1]) = ConfiguredWeight(agg_input[l][1])

C26_SingleEngineOrder ==
    /\ agg_output # <<>>
    /\ Len(agg_input) = 1
    /\ ConfiguredWeight(agg_input[1][1]) > 0
    /\ \A p, q \in 1..Len(agg_input[1][2]) :
          normalized_url(agg_input[1][2][p].url)
              = normalized_url(agg_input[1][2][q].url) => p = q
    => /\ Len(AggItems) = Len(agg_input[1][2])
       /\ \A p \in 1..Len(AggItems) :
             /\ AggItems[p].url = agg_input[1][2][p].url
             /\ AggItems[p].title = agg_input[1][2][p].title
             /\ AggItems[p].positions = <<p>>
             /\ AggItems[p].score = ConfiguredWeight(agg_input[1][1]) \div p
       /\ \A p \in 1..(Len(AggItems) - 1) :
             AggItems[p].score >= AggItems[p + 1].score

\* C26 witness: a single engine of weight 0.5 returned two results with
\* different normalized URLs, and aggregate returned two items.
C26_Witness ==
    /\ agg_output # <<>>
    /\ Len(agg_input) = 1
    /\ ConfiguredWeight(agg_input[1][1]) = Unit \div 2
    /\ Len(agg_input[1][2]) = 2
    /\ Len(AggItems) = 2
    /\ AggItems[1].score > AggItems[2].score

----------------------------------------------------------------------------
(* Properties of Search::search (specification SpecSearch)                 *)

\* search() got past its two early returns and came back from join_all
Joined == spc = "returned" /\ Len(engines) > 0 /\ Len(trim(query.query)) > 0

KindIs(k) == {i \in 1..Len(outcome) : outcome[i].kind = k}

\* the (name, results) tuples of the engines that succeeded, in the order
\* of engines_to_use
RECURSIVE SucceededFrom(_)
SucceededFrom(i) ==
    IF i > Len(outcome) THEN <<>>
    ELSE IF outcome[i].kind = "success"
         THEN <<<<engines_to_use[i].name, outcome[i].results>>>>
                  \o SucceededFrom(i + 1)
         ELSE SucceededFrom(i + 1)

\* C1: for every combination of success, error and deadline expiry among
\* the selected engines, search() returns Ok and its items are an
\* aggregation of exactly the lists of the engines that succeeded; with no
\* successful engine the call still succeeds, with count = 0.
C1_PartialFailureTolerance ==
    Joined =>
        /\ ret.tag = "Ok"
        /\ \E sr \in aggregate_outputs(engine_weights, SucceededFrom(1)) :
              /\ ret.value.results = sr.results
              /\ ret.value.count = sr.count
        /\ ret.value.count =
              Cardinality(InputKeys(SucceededFrom(1)))
        /\ KindIs("success") = {} => ret.value.count = 0

\* C1 witness: three engines ran; one succeeded with results, one failed,
\* one timed out, and search() returned.
C1_Witness ==
    /\ Joined
    /\ Len(outcome) = 3
    /\ KindIs("success") # {} /\ KindIs("error") # {} /\ KindIs("timeout") # {}
    /\ ret.value.count > 0

\* C1 witness: every engine failed or timed out and search() returned.
C1_WitnessAllFail ==
    /\ Joined
    /\ Len(outcome) >= 2
    /\ KindIs("success") = {}

\* C2 (as claimed): every selected engine that failed or timed out has an
\* entry in the errors map of the returned SearchResults, keyed by its
\* name, with reason "timeout" for a deadline expiry; engines that
\* succeeded have no entry.
C2_ErrorsRecorded ==
    Joined /\ ret.tag = "Ok" =>
        \A i \in 1..Len(outcome) :
            LET name == engines_to_use[i].name
                errs == errors(ret.value)
            IN /\ outcome[i].kind \in {"error", "timeout"} => name \in DOMAIN errs
               /\ outcome[i].kind = "timeout" /\ name \in DOMAIN errs
                     => errs[name] = "timeout"
               /\ outcome[i].kind = "success" => name \notin DOMAIN errs

MaxOf(S) == IF S = {} THEN 0 ELSE CHOOSE x \in S : \A y \in S : y <= x

\* C3: search() returns only after every selected engine's task has
\* settled; a task settles no later than its own deadline of
\* config.timeout seconds and is timed out only at that deadline, never
\* earlier because of another engine; the call completes no later than the
\* largest deadline among the selected engines.
C3_OwnDeadlines ==
    /\ Joined => KindIs("pending") = {}
    /\ spc \in {"joining", "returned"} =>
          \A i \in 1..Len(outcome) :
              /\ outcome[i].kind # "pending" =>
                    outcome[i].at <= start + engines_to_use[i].timeout
              /\ outcome[i].kind = "timeout" =>
                    outcome[i].at = start + engines_to_use[i].timeout
              /\ outcome[i].kind = "pending" =>
                    now <= start + engines_to_use[i].timeout
    /\ Joined =>
          ret.value.duration_ms <=
              1000 * MaxOf({engines_to_use[i].timeout : i \in 1..Len(engines_to_use)})

\* C3 witness: one engine was timed out at its deadline of 1 s while
\* another, with a deadline of 2 s, answered successfully after that.
C3_Witness ==
    /\ Joined
    /\ \E i, j \in 1..Len(outcome) :
          /\ outcome[i].kind = "timeout" /\ outcome[i].at = start + 1
          /\ outcome[j].kind = "success" /\ outcome[j].at = start + 2
    /\ ret.value.duration_ms = 2000

----------------------------------------------------------------------------
(* Properties of BrowserPool / BrowserFetcher (specification SpecBrowser)  *)

\* C4 (as claimed): the number of tabs open in the browser never exceeds
\* max_tabs, whatever way the fetches end.
C4_TabBudget == \A b \in BrowserIds : open_tabs[b] <= max_tabs

PermitHolders == {p \in Procs : HoldsPermit(p)}

\* C5: a fetch gives its tab permit back on every exit path: the permits
\* held never exceed max_tabs, held and available permits always add up to
\* max_tabs, and with no fetch in progress all max_tabs are available.
C5_PermitReleased ==
    /\ permits >= 0
    /\ Cardinality(PermitHolders) <= max_tabs
    /\ permits + Cardinality(PermitHolders) = max_tabs
    /\ (\A p \in Procs : call[p] # "fetch") => permits = max_tabs

\* C5 witness: fetches holding a permit have ended by success, by error
\* and by cancellation, and no fetch is in progress.
C5_Witness ==
    /\ \A p \in Procs : call[p] = "none"
    /\ exits = {"ok", "err", "cancel"}
    /\ permits = max_tabs

\* C6 (as claimed): at most one browser process launched by the pool is
\* alive at any moment.
C6_OneBrowserAlive == Cardinality(Alive) <= 1

\* C7: without a shutdown, all acquire_browser calls together launch the
\* browser once and receive the same handle; more generally every launch
\* but the first follows a shutdown, and two handles returned with no
\* shutdown in between are the same.
C7_LaunchOnce ==
    /\ launched <= shutdowns + 1
    /\ shutdowns = 0 /\ got # {} => launched = 1
    /\ \A x, y \in got : x[1] = y[1] => x[2] = y[2]
    /\ \A p \in Procs : handle[p] # 0 /\ shutdowns = 0 => handle[p] = browser

\* C7 witness: with no shutdown, one call launched the browser, another got
\* the cached handle, both hold it, and a third call waits for the mutex.
C7_Witness ==
    /\ shutdowns = 0
    /\ {<<0, 1, "launched">>, <<0, 1, "cached">>} \subseteq got
    /\ \E p, q, r \in Procs :
          /\ p # q
          /\ handle[p] = 1 /\ handle[q] = 1
          /\ fpc[r] = "lock"

----------------------------------------------------------------------------
(* Properties of engine selection, validation and hand-over in              *)
(* Search::search (specification SpecSearch)                                *)

\* the text is empty or consists of white space only
IsBlank(s) == \A i \in 1..Len(s) : s[i] = " "

\* eligibility of a registered engine for a query
Eligible(engine, q) ==
    /\ engine.enabled
    /\ \/ Len(q.engines) > 0 /\ \E i \in 1..Len(q.engines) : q.engines[i] = engine.shortcut
       \/ Len(q.engines) = 0 /\ q.categories \cap engine.categories # {}

EligibleNames == {engines[j].name : j \in {k \in 1..Len(engines) : Eligible(engines[k], query)}}

\* search() was called with a registered engine and a query that is not blank
PastValidation ==
    spc \in {"joining", "returned"} /\ Len(engines) > 0 /\ ~IsBlank(query.query)

\* index in the registry of the engine with this name
RegistryIndex(name) == CHOOSE j \in 1..Len(engines) : engines[j].name = name

\* C12: the (engine_name, results) tuples handed to the aggregator do not
\* depend on the order in which the tasks settled: they are the lists of
\* the engines that succeeded, in registration order, and nothing is handed
\* over while a task is still pending.
C12_HandedInRegistrationOrder ==
    /\ spc = "joining" => handed = <<>>
    /\ PastValidation /\ spc = "returned" =>
          /\ KindIs("pending") = {}
          /\ handed = SucceededFrom(1)
          /\ \A k \in 1..Len(handed) :
                \E j \in 1..Len(engines) : engines[j].name = handed[k][1]
          /\ \A k, l \in 1..Len(handed) :
                k < l => RegistryIndex(handed[k][1]) < RegistryIndex(handed[l][1])

\* C12 witness: the engine registered later settled first, both succeeded
\* with results, and both lists were handed over.
C12_Witness ==
    /\ PastValidation /\ spc = "returned"
    /\ Len(settle_order) >= 2
    /\ settle_order[1] > settle_order[2]
    /\ outcome[settle_order[1]].kind = "success"
    /\ outcome[settle_order[2]].kind = "success"
    /\ outcome[settle_order[1]].at < outcome[settle_order[2]].at
    /\ Len(handed) >= 2
    /\ \A k \in 1..Len(handed) : Len(handed[k][2]) > 0

\* C15 (as claimed): with engines registered and a query that is not blank,
\* search() fails with NoEngines when no registered engine is eligible.
C15_NoEligibleIsError ==
    PastValidation /\ spc = "returned" /\ EligibleNames = {} =>
        ret = [tag |-> "Err", error |-> "NoEngines"]

\* C16: the engines invoked by one search() are exactly the eligible ones,
\* each invoked once; an engine that is not eligible is neither invoked nor
\* named in an item of the output.
C16_InvokedAreEligible ==
    /\ PastValidation =>
          /\ \A j \in 1..Len(engines) :
                Cardinality({i \in 1..Len(invoked) : invoked[i] = engines[j].name})
                    = IF Eligible(engines[j], query) THEN 1 ELSE 0
          /\ \A i \in 1..Len(invoked) : invoked[i] \in EligibleNames
          /\ Len(tasks) = Len(invoked)
    /\ PastValidation /\ spc = "returned" /\ ret.tag = "Ok" =>
          \A k \in 1..Len(ret.value.results) :
              ret.value.results[k].engines \subseteq EligibleNames

\* C16 witness: of three registered engines one is disabled and one is in
\* no category of the query; only the third was invoked, and it
\* contributed an item.
C16_Witness ==
    /\ PastValidation /\ spc = "returned"
    /\ Len(engines) = 3
    /\ Len(invoked) = 1
    /\ \E j \in 1..Len(engines) : ~engines[j].enabled
    /\ \E j \in 1..Len(engines) :
          engines[j].enabled /\ ~Eligible(engines[j], query)
    /\ ret.tag = "Ok" /\ Len(ret.value.results) > 0

\* C16 witness: the query names engines by shortcut; the named and enabled
\* engine was invoked, the engine that shares a category with the query
\* but is not named was not.
C16_WitnessByShortcut ==
    /\ PastValidation /\ spc = "returned"
    /\ Len(query.engines) > 0
    /\ invoked # <<>>
    /\ \E j \in 1..Len(engines) :
          /\ query.categories \cap engines[j].categories # {}
          /\ engines[j].enabled
          /\ ~contains(invoked, engines[j].name)

\* C17 (as claimed): after set_timeout, the deadline of every engine task
\* is the duration that was set: a task settles within it and is timed out
\* exactly when it has passed.
C17_SetTimeoutIsDeadline ==
    spc \in {"joining", "returned"} /\ default_timeout \in TimeoutChoices =>
        \A i \in 1..Len(outcome) :
            /\ outcome[i].kind # "pending" =>
                  outcome[i].at <= start + default_timeout
            /\ outcome[i].kind = "timeout" =>
                  outcome[i].at = start + default_timeout

\* C18: with an engine registered, a query that is empty after trimming
\* makes search() fail with InvalidQuery, and no engine is invoked.
C18_BlankQueryRejected ==
    spc = "returned" /\ Len(engines) > 0 /\ IsBlank(query.query) =>
        /\ ret = [tag |-> "Err", error |-> "InvalidQuery"]
        /\ invoked = <<>>
        /\ tasks = <<>>

\* C18 witness: search() returned for a query of two spaces with two
\* engines registered, one of them eligible.
C18_Witness ==
    /\ spc = "returned"
    /\ Len(engines) = 2
    /\ Len(query.query) = 2 /\ IsBlank(query.query)
    /\ EligibleNames # {}

\* C19: with no engine registered, search() fails with NoEngines for every
\* query, a blank one included, and no engine is invoked.
C19_EmptyRegistryFirst ==
    spc = "returned" /\ Len(engines) = 0 =>
        /\ ret = [tag |-> "Err", error |-> "NoEngines"]
        /\ invoked = <<>>
        /\ tasks = <<>>

\* C19 witness: search() returned for a blank query with no engine
\* registered.
C19_Witness ==
    /\ spc = "returned"
    /\ Len(engines) = 0
    /\ IsBlank(query.query)

----------------------------------------------------------------------------
(* Properties of SearchResult::normalized_url (specification SpecNorm)      *)

\* C20 (as claimed): normalizing a normalized URL again gives the same
\* string, for every URL.
C20_Idempotent ==
    Len(norm_keys) >= 2 => norm_keys[2] = norm_keys[1]

\* the URL without one leading scheme prefix, if it has one
StripOneScheme(url) ==
    IF starts_with(url, HTTPS) THEN SubSeq(url, Len(HTTPS) + 1, Len(url))
    ELSE IF starts_with(url, HTTP) THEN SubSeq(url, Len(HTTP) + 1, Len(url))
    ELSE url

\* the text without one trailing slash, if it has one
StripOneSlash(url) ==
    IF Len(url) > 0 /\ url[Len(url)] = "/" THEN SubSeq(url, 1, Len(url) - 1)
    ELSE url

\* C21 (as claimed): the deduplication key of a URL is the URL without one
\* leading http:// or https:// and without one trailing slash, in lower
\* case; every other character is kept, so a second trailing slash or a
\* further scheme prefix stays in the key.
C21_StripsOnce ==
    Len(norm_keys) >= 1 =>
        norm_keys[1] = to_lowercase(StripOneSlash(StripOneScheme(norm_url)))

----------------------------------------------------------------------------
(* Properties of ProxyPool (specification SpecProxy)                        *)

Distinct(list) == \A i, j \in 1..Len(list) : list[i] = list[j] => i = j

InGetProxy(c) == ppc[c] \in {"get_read", "get_fetch"}
InRefresh(c) == ppc[c] \in {"refresh_fetch", "refresh_write", "refresh_ok", "refresh_err"}

\* C22 (as claimed): with RoundRobin on a list of distinct proxies that is
\* not modified meanwhile, each get_proxy selects the entry after the one
\* selected by the call before it, the first after the last, so any N
\* consecutive calls return N distinct proxies in list order.
C22_RoundRobinOrder ==
    strategy = "RoundRobin" /\ Len(recent) = 2 /\ Distinct(proxies)
        /\ Len(proxies) > 0 =>
        recent[2] = (recent[1] + 1) % Len(proxies)

\* C23: get_proxy returns none whenever the enabled flag is false, and no
\* call passes the enabled check of a disabled pool; a pool constructed
\* empty stays disabled, whatever is added to it or refreshed, until
\* set_enabled(true) is called.
C23_DisabledGivesNone ==
    /\ last_get # <<>> /\ ~last_get[1].enabled => last_get[1].result = NoProxy
    /\ \A c \in Callers : InGetProxy(c) => enabled
    /\ built_empty /\ ~enabled_by_call => ~enabled

\* C23 witness: a pool constructed empty and never enabled holds two
\* proxies added since, and get_proxy returned none.
C23_Witness ==
    /\ built_empty /\ ~enabled_by_call
    /\ Len(proxies) = 2
    /\ last_get = <<[enabled |-> FALSE, result |-> NoProxy]>>

\* C23 witness: a pool constructed with proxies was disabled by
\* set_enabled(false) and get_proxy returned none after it had returned a
\* proxy before.
C23_WitnessDisabledLater ==
    /\ ~built_empty /\ ~enabled
    /\ Len(proxies) = 3
    /\ current_index > 0
    /\ last_get = <<[enabled |-> FALSE, result |-> NoProxy]>>

\* C28: a refresh without provider returns Ok and changes nothing; a
\* refresh whose fetch_proxies fails returns the error and changes
\* nothing; a refresh whose fetch_proxies succeeds makes the list exactly
\* the fetched one; no step of refresh changes the enabled flag or the
\* round-robin counter.
C28_Refresh ==
    [][\A c \in Callers :
          /\ ppc[c] = "idle" /\ ppc'[c] = "refresh_ok" =>
                ~provider /\ proxies' = proxies
          /\ ppc[c] = "idle" /\ ppc'[c] = "refresh_fetch" =>
                provider /\ proxies' = proxies
          /\ ppc[c] = "refresh_fetch" /\ ppc'[c] = "refresh_err" =>
                proxies' = proxies
          /\ ppc[c] = "refresh_fetch" /\ ppc'[c] = "refresh_write" =>
                plocal'[c] \in ProviderLists /\ proxies' = proxies
          /\ ppc[c] = "refresh_fetch" =>
                ppc'[c] \in {"refresh_fetch", "refresh_err", "refresh_write"}
          /\ ppc[c] = "refresh_write" /\ ppc'[c] = "refresh_ok" =>
                proxies' = plocal[c]
          /\ ppc[c] = "refresh_err" => ppc'[c] \in {"refresh_err", "idle"}
          /\ (ppc'[c] # ppc[c] /\ (InRefresh(c) \/ ppc'[c] \in
                  {"refresh_fetch", "refresh_ok"})) =>
                enabled' = enabled /\ current_index' = current_index
      ]_vars

\* C28 witness: on a pool with provider, after get_proxy calls and with an
\* added proxy gone, one refresh is about to return Ok with the list being
\* the provider's, another is about to return the provider's error.
C28_Witness ==
    /\ provider
    /\ current_index > 0
    /\ proxies \in ProviderLists
    /\ ppc["c1"] = "refresh_ok"
    /\ ppc["c2"] = "refresh_err"

\* C28 witness: a refresh is about to return Ok on a pool without provider
\* that holds proxies.
C28_WitnessNoProvider ==
    /\ ~provider
    /\ Len(proxies) > 0
    /\ \E c \in Callers : ppc[c] = "refresh_ok"

\* C30: on an enabled pool, under every interleaving with add_proxy,
\* remove_proxy and refresh, the index a get_proxy call has selected stays
\* within the list until the call returns, the call returns the proxy at
\* that index of the list as it is then, and it returns none only when the
\* list is empty.
C30_SelectionAtomic ==
    /\ [](\A c \in Callers :
            ppc[c] = "get_fetch" => c \in readers /\ plocal[c] < Len(proxies))
    /\ [][\A c \in Callers :
            InGetProxy(c) /\ ppc'[c] = "idle" =>
                /\ last_get'[1].enabled
                /\ last_get'[1].result = NoProxy => proxies = <<>>
                /\ last_get'[1].result # NoProxy =>
                      /\ \E i \in 1..Len(proxies) :
                            last_get'[1].result = SomeProxy(proxies[i])
                      /\ ppc[c] = "get_fetch"
                      /\ last_get'[1].result = SomeProxy(proxies[plocal[c] + 1])
       ]_vars

\* C30 witness: one caller has selected the last index of a list of three
\* and holds the read guard while the other waits to apply a refresh.
C30_Witness ==
    /\ enabled
    /\ ppc["c1"] = "get_fetch" /\ plocal["c1"] = 2 /\ Len(proxies) = 3
    /\ ppc["c2"] = "refresh_write"

\* C30 witness: get_proxy returned none on an enabled pool whose list had
\* been emptied by remove_proxy.
C30_WitnessNone ==
    /\ enabled /\ ~provider /\ ~built_empty
    /\ proxies = <<>>
    /\ last_get = <<[enabled |-> TRUE, result |-> NoProxy]>>

----------------------------------------------------------------------------
(* Failure of acquire_browser (specification SpecBrowser)                   *)

\* C29: while a call resolves the executable or launches the browser it
\* holds the init mutex and no handle is cached; when that step fails the
\* call ends, the pool still has no handle and no further launch (so no
\* event task) is counted, the mutex is free again, and a fetch gives its
\* tab permit back; nothing of the failure is kept, so the next caller
\* finds the mutex free and no handle and launches again.
C29_FailedLaunchLeavesPoolClean ==
    /\ [](\A p \in Procs :
            fpc[p] \in {"resolve", "launch"} =>
                init_lock = p /\ browser = 0 /\ handle[p] = 0)
    /\ [][\A p \in Procs :
            fpc[p] \in {"resolve", "launch"} /\ fpc'[p] = "idle" =>
                /\ call'[p] = "none"
                /\ browser' = 0
                /\ launched' = launched
                /\ init_lock' = "free"
                /\ handle'[p] = 0
                /\ call[p] = "fetch" =>
                      permits' = permits + 1 /\ exits' \cap {"err", "cancel"} # {}
                /\ call[p] # "fetch" => permits' = permits
       ]_vars

\* C29 witness: no browser has been launched yet, a fetch has ended with
\* an error (so in executable resolution or launch) and its permit is
\* back, and another fetch holds the mutex and is launching the browser.
C29_Witness ==
    /\ launched = 0 /\ browser = 0
    /\ exits = {"err"}
    /\ \E q \in Procs :
          /\ call[q] = "fetch" /\ fpc[q] = "launch" /\ init_lock = q
          /\ \A r \in Procs \ {q} : call[r] = "none"
    /\ permits = max_tabs - 1

\* C29 witness: a fetch failed before any browser was launched, and a later
\* call launched the browser, which is now cached.
C29_WitnessRelaunched ==
    /\ launched = 1 /\ browser = 1 /\ shutdowns = 0
    /\ "err" \in exits
    /\ \A b \in BrowserIds : open_tabs[b] = 0
    /\ \A p \in Procs : call[p] = "none"
    /\ calls = 2

----------------------------------------------------------------------------
(* Panics of engines (specification SpecSearch)                             *)

\* C27 (as claimed): after a panic inside one engine's task, search() goes
\* on and returns Ok, and what it returns is an aggregation of the lists of
\* all engines that succeeded.
C27_PanicIsolated ==
    (\E i \in 1..Len(outcome) : outcome[i].kind = "panic") =>
        /\ spc \in {"joining", "returned"}
        /\ spc = "returned" =>
              /\ ret.tag = "Ok"
              /\ \E sr \in aggregate_outputs(engine_weights, SucceededFrom(1)) :
                    ret.value.results = sr.results

====
